---- MODULE Spec2Model ----
(***************************************************************************)
(* weather-lite: the location resolver of src/lib/location.ts.             *)
(*                                                                         *)
(* The module-level single-slot cache `locationCache` is shared by every   *)
(* caller.  A caller runs one operation at a time: detectLocation (an      *)
(* async function that suspends at its provider calls), getCachedLocation  *)
(* or clearLocationCache (both synchronous).  Callers interleave at the    *)
(* suspension points only, as on a JavaScript event loop.                  *)
(*                                                                         *)
(* Coordinates are scaled by 10^4 so that they are integers.  Time is in   *)
(* milliseconds.                                                           *)
(***************************************************************************)
EXTENDS Integers, Sequences, FiniteSets, TLC

(* ------------------------------ bounds --------------------------------- *)

\* number of clock advances in a behaviour
MaxTicks == 2

\* largest capacity a WeatherCache is constructed with
MaxCapacity == 2

\* largest cooldownSeconds a RefreshButton is given
MaxCooldown == 4

(* ------------------------- program constants --------------------------- *)

\* LOCATION_CONSTANTS.CACHE_TTL
CACHE_TTL == 300000

\* DEFAULT_CONFIG.DEFAULT_LAT, DEFAULT_CONFIG.DEFAULT_LON (x 10^4) and
\* DEFAULT_CONFIG.DEFAULT_CITY, which config.location defaults to
DEFAULT_LAT == 377749
DEFAULT_LON == -1224194
DEFAULT_CITY == "San Francisco, California"

\* DEFAULT_CONFIG.CACHE_TTL, which config.cache.ttl defaults to and which the
\* WeatherCache constructor takes when it is given no ttl
CONFIG_CACHE_TTL == 600000

\* the default of the constructor's maxEntries, which the weatherCache
\* singleton is built with
DEFAULT_MAX_ENTRIES == 10

\* DEFAULT_CONFIG.ENABLE_CACHE
ENABLE_CACHE == TRUE

(* ------------------------------ inputs --------------------------------- *)

\* two callers, so that an operation can start while a detectLocation of the
\* other caller is suspended at a provider call
Callers == { "c1", "c2" }

\* the clock advances in steps of half a TTL, so that now - timestamp takes
\* the values 0, CACHE_TTL \div 2, CACHE_TTL (the exact expiry instant), ...
TickMs == CACHE_TTL \div 2

\* an optional field that is not set
Undefined == "undefined"

\* positions the Geolocation API may report
GpsPositions == { [latitude |-> 515074, longitude |-> -1278] }

\* GeolocationPositionError codes, and "unsupported" for a browser without
\* navigator.geolocation
GpsFailures == { "unsupported", "PERMISSION_DENIED", "POSITION_UNAVAILABLE", "TIMEOUT" }

\* what the IP provider request may end in: the fetch rejects (network error,
\* abort by the timeout), a non-2xx response, or a JSON body
IPResponses ==
    { [kind |-> k, status |-> "fail", lat |-> 0, lon |-> 0, hasLatLon |-> FALSE,
       city |-> Undefined, country |-> Undefined] : k \in {"neterr", "abort", "non2xx"} }
    \cup
    { [kind |-> "json", status |-> "fail", lat |-> 0, lon |-> 0, hasLatLon |-> FALSE,
       city |-> Undefined, country |-> Undefined],
      [kind |-> "json", status |-> "success", lat |-> 0, lon |-> 0, hasLatLon |-> FALSE,
       city |-> "Paris", country |-> "France"],
      [kind |-> "json", status |-> "success", lat |-> 488566, lon |-> 23522, hasLatLon |-> TRUE,
       city |-> "Paris", country |-> "France"],
      [kind |-> "json", status |-> "success", lat |-> 488566, lon |-> 23522, hasLatLon |-> TRUE,
       city |-> Undefined, country |-> Undefined] }

\* what the Nominatim request may end in: the fetch rejects, a non-2xx
\* response, a body that is not JSON, a JSON body without address, or a JSON
\* body with an address (with or without a city-level name)
GeocodeResponses ==
    { [kind |-> k, city |-> Undefined, country |-> Undefined]
        : k \in {"neterr", "non2xx", "badjson", "noaddress"} }
    \cup
    { [kind |-> "address", city |-> "Geo City", country |-> "Geo Country"],
      [kind |-> "address", city |-> Undefined, country |-> "Geo Country"] }

(* ------------------------------- state --------------------------------- *)

VARIABLES
    locationCache,   \* the module-level slot: null or {location, timestamp, ttl}
    now,             \* Date.now()
    call,            \* per caller: the activation of the operation it runs / ran last
    lastReturned     \* the Location the most recent detectLocation returned

\* the weather cache of src/lib/cache.ts and the handler of GET /api/weather,
\* which run in the server process
VARIABLES
    cache,           \* WeatherCache.cache: the Map, as its entries in insertion order
    maxEntries,      \* WeatherCache.maxEntries
    enabled,         \* config.cache.enabled
    wnow,            \* Date.now() of the server process
    ret,             \* the WeatherCache operation run last, and what it returned
    recency,         \* the stored keys, least recently touched (get hit or set) first
    req              \* per request: the activation of the GET handler

wvars == << cache, maxEntries, enabled, wnow, ret, recency, req >>

\* the RefreshButton component of src/components/weather/refresh-button.tsx
VARIABLES
    button           \* its props, its state and the onRefresh call it started

\* what happened to each caller's detectLocation run while it was in flight
VARIABLES
    overlap          \* per caller: the slot was cleared; a run that started
                     \* later has started, or has completed

vars == << locationCache, now, call, lastReturned, wvars, button, overlap >>

\* a Location; city and country are optional
Loc(lat, lon, city, country, source) ==
    [latitude |-> lat, longitude |-> lon, city |-> city, country |-> country,
     source |-> source]

\* no Location (null, or a local that is not assigned yet)
NoLocation == Loc(0, 0, Undefined, Undefined, "none")

\* locationCache = null
NullCache == [present |-> FALSE, location |-> NoLocation, timestamp |-> 0, ttl |-> 0]

\* no IP provider data
NoIPData == [city |-> Undefined, country |-> Undefined]

\* a caller between two operations, and the fresh locals of an operation
Activation(pc, operation, force) ==
    [pc |-> pc, op |-> operation, forceRefresh |-> force,
     location |-> NoLocation,      \* detectLocation's local `location`
     errors |-> 0,                 \* detectLocation's local `errors` (its length)
     ipData |-> NoIPData,          \* getIPLocation's local `data` (city, country)
     settled |-> "pending",        \* the promise: pending, resolved, rejected
     result |-> NoLocation,        \* the value returned
     calls |-> << >>,              \* the steps so far: provider calls issued ("gps", "ip",
                                   \* "geocode"), errors caught, default coordinates taken
     geocode |-> "none",           \* how the reverse geocoding request ended
     fromCache |-> FALSE]          \* answered by the short-circuit of line 295

(* --------------------------- pure functions ---------------------------- *)

\* mutant: the comparison is inverted
CacheValid_Inverted(entry, t) == t - entry.timestamp > entry.ttl

\* mutant: an entry is still valid at the instant now - timestamp = ttl
CacheValid_Inclusive(entry, t) == t - entry.timestamp <= entry.ttl

\* the validity test of lines 297 and 385
CacheValid(entry, t) == t - entry.timestamp < entry.ttl

\* mutant: no try/catch around the request, a rejected fetch propagates
reverseGeocode_Throws(resp) ==
    IF resp.kind = "address"
    THEN [threw |-> FALSE, city |-> resp.city, country |-> resp.country]
    ELSE [threw |-> resp.kind = "neterr", city |-> Undefined, country |-> Undefined]

\* reverseGeocode: the outcome of the request to {threw, city, country}.
\* Every failure is absorbed (lines 119-127, 137-140): it returns {} and
\* never throws.
reverseGeocode(resp) ==
    IF resp.kind = "address"
    THEN [threw |-> FALSE, city |-> resp.city, country |-> resp.country]
    ELSE [threw |-> FALSE, city |-> Undefined, country |-> Undefined]

\* `if (city) location.city = city; if (country) location.country = country;`
AssignNames(loc, names) ==
    [loc EXCEPT !.city = IF names.city # Undefined THEN names.city ELSE @,
                !.country = IF names.country # Undefined THEN names.country ELSE @]

\* getBrowserLocation's successCallback after reverseGeocode settled:
\* .then assigns the names, .catch resolves with the bare location
BrowserLocationNamed(loc, r) ==
    IF r.threw THEN loc ELSE AssignNames(loc, r)

\* getIPLocation lines 242-251: the catch falls back to the IP provider's names
IPLocationNamed(loc, r, data) ==
    IF r.threw
    THEN [loc EXCEPT !.city = data.city, !.country = data.country]
    ELSE AssignNames(loc, r)

\* detectLocation lines 333-341: the catch falls back to the configured city
DefaultLocationNamed(loc, r) ==
    IF r.threw
    THEN [loc EXCEPT !.city = DEFAULT_CITY]
    ELSE AssignNames(loc, r)

\* getIPLocation lines 217-232: the response is accepted
IPSucceeds(resp) ==
    /\ resp.kind = "json"
    /\ resp.status = "success"
    /\ resp.hasLatLon

(* --------------------------- the weather cache ------------------------- *)

\* Coordinates handed to the weather cache are in units of 10^-6 degree, so
\* that two inputs can differ beyond the fourth decimal.  A coordinate is a
\* JavaScript value: a finite number, NaN, or undefined when the field is
\* missing.
Num(v) == [kind |-> "number", val |-> v]
NaN == [kind |-> "NaN", val |-> 0]
MissingCoordinate == [kind |-> "undefined", val |-> 0]

\* a Location as the cache reads it: latitude and longitude, and the city
\* and country that transformWeatherResponse reads
WLoc(latitude, longitude, city, country) ==
    [latitude |-> latitude, longitude |-> longitude, city |-> city, country |-> country]

NoWLocation == WLoc(MissingCoordinate, MissingCoordinate, Undefined, Undefined)

\* the locations the cache is called with: two points in San Francisco that
\* differ beyond the fourth decimal, two points 0.00001 degree either side
\* of the equator, one whose latitude is missing and one whose coordinates
\* are NaN
SFPrecise == WLoc(Num(37774912), Num(-122419412), "San Francisco", "US")
SFRounded == WLoc(Num(37774910), Num(-122419410), "San Francisco", "US")
NorthOfEquator == WLoc(Num(10), Num(0), Undefined, Undefined)
SouthOfEquator == WLoc(Num(-10), Num(0), Undefined, Undefined)
NoLatitude == WLoc(MissingCoordinate, Num(-122419410), Undefined, Undefined)
NotANumber == WLoc(NaN, NaN, Undefined, Undefined)

CacheLocations ==
    { SFPrecise, SFRounded, NorthOfEquator, SouthOfEquator, NoLatitude, NotANumber }

Abs(x) == IF x < 0 THEN -x ELSE x

\* Number.prototype.toFixed(2) of a value given in 10^-6; digits is the
\* rounded magnitude in units of 10^-2
toFixed2(x) == [sign |-> IF x < 0 THEN "-" ELSE "", digits |-> (Abs(x) + 5000) \div 10000]

\* WeatherData: the fields of the payload the cache and the route look at.
\* id stands for the weather values of one upstream response; name and
\* country are those of WeatherData.location.
WeatherData(id, name, country, source) ==
    [id |-> id, name |-> name, country |-> country, source |-> source]

\* a location name: the city, or the text made of the two coordinates
CityName(city) == [city |-> city, coordinates |-> << toFixed2(0), toFixed2(0) >>]
CoordinateName(latitude, longitude) ==
    [city |-> "", coordinates |-> << toFixed2(latitude), toFixed2(longitude) >>]

\* null, where a WeatherData is expected
NullData == WeatherData(0, CityName(""), Undefined, "null")

\* the validated bodies of two upstream responses
WeatherResponses == { [id |-> 1], [id |-> 2] }

\* transformWeatherResponse: the name is location.city, or the coordinates
\* at two decimals when the city is missing or empty; source is 'api'
transformWeatherResponse(response, location) ==
    WeatherData(response.id,
                IF location.city # Undefined /\ location.city # ""
                THEN CityName(location.city)
                ELSE CoordinateName(location.latitude.val, location.longitude.val),
                location.country, "api")

\* two payloads, as getWeatherData returns them
Payloads ==
    { transformWeatherResponse([id |-> 1], SFRounded),
      transformWeatherResponse([id |-> 2], NorthOfEquator) }

\* Number.prototype.toFixed(4) of a value given in 10^-6: the sign is taken
\* off first and put back in front of the rounded digits, so a negative
\* value that rounds to zero reads "-0.0000".  digits is the rounded
\* magnitude in units of 10^-4.
toFixed4(x) == [sign |-> IF x < 0 THEN "-" ELSE "", digits |-> (Abs(x) + 50) \div 100]

\* the rounded value that the text names: Number(x.toFixed(4)), in 10^-4
Rounded4(x) == IF x < 0 THEN -((Abs(x) + 50) \div 100) ELSE (Abs(x) + 50) \div 100

\* coordinate.toFixed(4): NaN reads "NaN"
toFixed(coordinate) ==
    IF coordinate.kind = "NaN" THEN [sign |-> "NaN", digits |-> 0]
    ELSE toFixed4(coordinate.val)

NoKey == << toFixed4(0), toFixed4(0) >>

\* getCacheKey: `${latitude.toFixed(4)},${longitude.toFixed(4)}`; reading
\* toFixed of undefined throws a TypeError
getCacheKey(latitude, longitude) ==
    IF latitude.kind = "undefined" \/ longitude.kind = "undefined"
    THEN [threw |-> TRUE, key |-> NoKey]
    ELSE [threw |-> FALSE, key |-> << toFixed(latitude), toFixed(longitude) >>]

\* the Map: a sequence of entries in insertion order
MapHas(m, k) == \E i \in 1..Len(m) : m[i].key = k
MapGet(m, k) == m[CHOOSE i \in 1..Len(m) : m[i].key = k]
MapDelete(m, k) == SelectSeq(m, LAMBDA e : e.key # k)
MapSet(m, k, e) ==
    IF MapHas(m, k)
    THEN [i \in 1..Len(m) |-> IF m[i].key = k THEN e ELSE m[i]]
    ELSE Append(m, e)
MapKeys(m) == { m[i].key : i \in 1..Len(m) }

\* mutant: the cache counts as enabled whatever the configuration says
isEnabled_Always == TRUE

\* WeatherCache.isEnabled
isEnabled == enabled

\* mutant: the entry put back at the end of the Map carries the copy
\* handed to the caller
Promote_StoresCopy(m, k, entry) ==
    MapSet(MapDelete(m, k), k, [entry EXCEPT !.data.source = "cache"])

\* get, lines 66-67: delete and re-insert, which moves the entry to the end
Promote(m, k, entry) == MapSet(MapDelete(m, k), k, entry)

\* what a cache operation leaves behind: the Map, whether it threw, and the
\* value it returned (a WeatherData or null for get, a boolean for has)
Outcome(m, threw, data, found) == [cache |-> m, threw |-> threw, data |-> data, found |-> found]

\* mutant: a hit renews the entry, so that it expires one ttl after the
\* last read
get_RenewsOnHit(m, location, t) ==
    IF ~isEnabled THEN Outcome(m, FALSE, NullData, FALSE)
    ELSE LET k == getCacheKey(location.latitude, location.longitude) IN
         IF k.threw THEN Outcome(m, TRUE, NullData, FALSE)
         ELSE IF ~MapHas(m, k.key) THEN Outcome(m, FALSE, NullData, FALSE)
         ELSE LET entry == MapGet(m, k.key) IN
              IF t > entry.expiresAt
              THEN Outcome(MapDelete(m, k.key), FALSE, NullData, FALSE)
              ELSE Outcome(Promote(m, k.key,
                                   [entry EXCEPT !.expiresAt = t + CONFIG_CACHE_TTL]),
                           FALSE, [entry.data EXCEPT !.source = "cache"], TRUE)

\* WeatherCache.get
get(m, location, t) ==
    IF ~isEnabled THEN Outcome(m, FALSE, NullData, FALSE)
    ELSE LET k == getCacheKey(location.latitude, location.longitude) IN
         IF k.threw THEN Outcome(m, TRUE, NullData, FALSE)
         ELSE IF ~MapHas(m, k.key) THEN Outcome(m, FALSE, NullData, FALSE)
         ELSE LET entry == MapGet(m, k.key) IN
              IF t > entry.expiresAt
              THEN Outcome(MapDelete(m, k.key), FALSE, NullData, FALSE)
              ELSE Outcome(Promote(m, k.key, entry), FALSE,
                           [entry.data EXCEPT !.source = "cache"], TRUE)

\* mutant: the oldest entry goes whenever the Map is full, also when the key
\* is already stored
Evict_EvenIfPresent(m, k) ==
    IF Len(m) >= maxEntries /\ Len(m) > 0 THEN MapDelete(m, m[1].key) ELSE m

\* mutant: the key to evict is that of the first entry that has expired,
\* when there is one
firstKey_PrefersExpired(m) ==
    IF \E i \in 1..Len(m) : wnow > m[i].expiresAt
    THEN m[CHOOSE i \in 1..Len(m) :
             /\ wnow > m[i].expiresAt
             /\ \A j \in 1..(i - 1) : ~(wnow > m[j].expiresAt)].key
    ELSE m[1].key

\* set, line 97: this.cache.keys().next().value of a Map that is not empty
firstKey(m) == m[1].key

\* set, lines 95-101: with the Map full and the key new, the first key of the
\* Map is deleted; keys().next().value is undefined for an empty Map, and
\* then nothing is deleted
Evict(m, k) ==
    IF Len(m) >= maxEntries /\ ~MapHas(m, k)
    THEN IF Len(m) > 0 THEN MapDelete(m, firstKey(m)) ELSE m
    ELSE m

\* mutant: a key that is already stored keeps the entry it has
set_KeepsFirst(m, location, data, t) ==
    IF ~isEnabled THEN Outcome(m, FALSE, NullData, FALSE)
    ELSE LET k == getCacheKey(location.latitude, location.longitude) IN
         IF k.threw THEN Outcome(m, TRUE, NullData, FALSE)
         ELSE IF MapHas(m, k.key) THEN Outcome(m, FALSE, NullData, FALSE)
         ELSE LET entry == [key |-> k.key, data |-> data, timestamp |-> t,
                            expiresAt |-> t + CONFIG_CACHE_TTL]
              IN Outcome(MapSet(Evict(m, k.key), k.key, entry), FALSE, NullData, FALSE)

\* WeatherCache.set
set(m, location, data, t) ==
    IF ~isEnabled THEN Outcome(m, FALSE, NullData, FALSE)
    ELSE LET k == getCacheKey(location.latitude, location.longitude) IN
         IF k.threw THEN Outcome(m, TRUE, NullData, FALSE)
         ELSE LET entry == [key |-> k.key, data |-> data, timestamp |-> t,
                            expiresAt |-> t + CONFIG_CACHE_TTL]
                  evicted == Evict(m, k.key)
                  removed == IF MapHas(evicted, k.key) THEN MapDelete(evicted, k.key)
                             ELSE evicted
              IN Outcome(MapSet(removed, k.key, entry), FALSE, NullData, FALSE)

\* mutant: a has that finds the entry moves it to the end of the Map
has_Promotes(m, location, t) ==
    LET k == getCacheKey(location.latitude, location.longitude) IN
    IF k.threw THEN Outcome(m, TRUE, NullData, FALSE)
    ELSE IF ~MapHas(m, k.key) THEN Outcome(m, FALSE, NullData, FALSE)
    ELSE IF t > MapGet(m, k.key).expiresAt
         THEN Outcome(MapDelete(m, k.key), FALSE, NullData, FALSE)
         ELSE Outcome(Promote(m, k.key, MapGet(m, k.key)), FALSE, NullData, TRUE)

\* WeatherCache.has
has(m, location, t) ==
    LET k == getCacheKey(location.latitude, location.longitude) IN
    IF k.threw THEN Outcome(m, TRUE, NullData, FALSE)
    ELSE IF ~MapHas(m, k.key) THEN Outcome(m, FALSE, NullData, FALSE)
    ELSE IF t > MapGet(m, k.key).expiresAt
         THEN Outcome(MapDelete(m, k.key), FALSE, NullData, FALSE)
         ELSE Outcome(m, FALSE, NullData, TRUE)

\* the record of the operation run last on the cache: its name and
\* arguments, whether the key was in the Map when it was called, what it
\* returned or that it threw, the size of the Map after it, and the entries
\* of other keys that it removed from the Map
Ret(op, location, data, existed, found, threw, size) ==
    [op |-> op, location |-> location, data |-> data, existed |-> existed,
     found |-> found, threw |-> threw, size |-> size, evicted |-> {}]

NoRet == Ret("none", NoWLocation, NullData, FALSE, FALSE, FALSE, 0)

\* the key of location is in the Map m
InMap(m, location) ==
    LET k == getCacheKey(location.latitude, location.longitude)
    IN  ~k.threw /\ MapHas(m, k.key)

\* the order of last touch: key k moves to the most recent end
Touch(r, k) == Append(SelectSeq(r, LAMBDA x : x # k), k)

\* the order of last touch, for the keys still stored in m
Stored(r, m) == SelectSeq(r, LAMBDA x : x \in MapKeys(m))

(* ------------------------ GET /api/weather ----------------------------- *)

\* what searchParams.get returns: null for a missing parameter, else the
\* text, given together with the value Number(text) has
MissingParam == [kind |-> "null", text |-> "", number |-> Num(0)]
NumberParam(text, v) == [kind |-> "text", text |-> text, number |-> Num(v)]
TextParam(text) == [kind |-> "text", text |-> text, number |-> IF text = "" THEN Num(0) ELSE NaN]

Query(lat, lon, city, country, forceRefresh) ==
    [lat |-> lat, lon |-> lon, city |-> city, country |-> country,
     forceRefresh |-> forceRefresh]

NoQuery == Query(MissingParam, MissingParam, MissingParam, MissingParam, MissingParam)

\* the requests the handler is sent: the page's request for San Francisco;
\* a forced refresh for a point that rounds to the same key, named Oakland;
\* one without lat; one without city and country; one whose lat is no
\* number
Queries ==
    { Query(NumberParam("37.77491", 37774910), NumberParam("-122.41941", -122419410),
            TextParam("San Francisco"), TextParam("US"), TextParam("false")),
      Query(NumberParam("37.774912", 37774912), NumberParam("-122.419412", -122419412),
            TextParam("Oakland"), TextParam("US"), TextParam("true")),
      Query(MissingParam, NumberParam("-122.41941", -122419410),
            TextParam("San Francisco"), TextParam("US"), MissingParam),
      Query(NumberParam("37.77491", 37774910), NumberParam("-122.41941", -122419410),
            MissingParam, MissingParam, MissingParam),
      Query(TextParam("north"), NumberParam("-122.41941", -122419410),
            TextParam("San Francisco"), TextParam("US"), MissingParam) }

\* z.coerce.number(): Number(input); Number(null) is 0
Coerce(param) == IF param.kind = "null" THEN Num(0) ELSE param.number

\* z.coerce.number().min(lo).max(hi): NaN is rejected, bounds in degrees
CoordinateOK(param, lo, hi) ==
    /\ Coerce(param).kind = "number"
    /\ Coerce(param).val >= lo * 1000000
    /\ Coerce(param).val <= hi * 1000000

\* z.string().optional(): a string or undefined; null is neither
OptionalStringOK(param) == param.kind = "text"

\* QuerySchema.parse succeeds
QueryOK(query) ==
    /\ CoordinateOK(query.lat, -90, 90)
    /\ CoordinateOK(query.lon, -180, 180)
    /\ OptionalStringOK(query.city)
    /\ OptionalStringOK(query.country)

\* route.ts lines 27-33: the Location built from the parsed query
QueryLocation(query) ==
    WLoc(Coerce(query.lat), Coerce(query.lon),
         IF query.city.text = "" THEN Undefined ELSE query.city.text,
         IF query.country.text = "" THEN Undefined ELSE query.country.text)

\* how the upstream request of fetchWeatherData ends: the timer aborts it,
\* fetch rejects (Node's message is 'fetch failed'), or a response
\* arrives: not ok, or ok with a body that is no JSON, that fails the
\* schema, or that passes it
Upstream(kind, ok, body, id, mentionsFetch) ==
    [kind |-> kind, ok |-> ok, body |-> body, id |-> id, mentionsFetch |-> mentionsFetch]

NoUpstream == Upstream("none", FALSE, "none", 0, FALSE)

FetchOutcomes ==
    { Upstream("aborted", FALSE, "none", 0, FALSE),
      Upstream("rejected", FALSE, "none", 0, TRUE),
      Upstream("response", FALSE, "none", 0, FALSE),
      Upstream("response", TRUE, "not json", 0, FALSE),
      Upstream("response", TRUE, "invalid", 0, FALSE) }
    \cup { Upstream("response", TRUE, "valid", r.id, FALSE) : r \in WeatherResponses }

\* a thrown value: its class, its name, and what its message contains;
\* for a WeatherError, its type
Thrown(class, name, mentionsFetch, mentionsStatus, type) ==
    [class |-> class, name |-> name, mentionsFetch |-> mentionsFetch,
     mentionsStatus |-> mentionsStatus, type |-> type]

NoError == Thrown("none", "", FALSE, FALSE, "none")

\* WeatherErrorType
WeatherErrorTypes ==
    { "NETWORK_ERROR", "TIMEOUT", "INVALID_RESPONSE", "API_ERROR", "VALIDATION_ERROR",
      "UNKNOWN_ERROR" }

\* a WeatherError: a plain object with a type
WeatherError(type) == Thrown("WeatherError", "", FALSE, FALSE, type)

\* fetchWeatherData lines 195-214: what the try block throws for an upstream
\* outcome that is not a valid response
TryThrows(outcome) ==
    IF outcome.kind = "aborted" THEN Thrown("Error", "AbortError", FALSE, FALSE, "none")
    ELSE IF outcome.kind = "rejected"
         THEN Thrown("Error", "TypeError", outcome.mentionsFetch, FALSE, "none")
    ELSE IF ~outcome.ok THEN Thrown("Error", "Error", FALSE, TRUE, "none")
    ELSE IF outcome.body = "not json" THEN Thrown("Error", "SyntaxError", FALSE, FALSE, "none")
    ELSE Thrown("ZodError", "ZodError", FALSE, FALSE, "none")

\* mutant: the test for 'status' in the message is missing
Classify_NoStatusTest(error) ==
    IF error.class = "ZodError" THEN "VALIDATION_ERROR"
    ELSE IF error.class = "Error"
         THEN IF error.name = "AbortError" THEN "TIMEOUT"
              ELSE IF error.mentionsFetch THEN "NETWORK_ERROR"
              ELSE "UNKNOWN_ERROR"
    ELSE "UNKNOWN_ERROR"

\* fetchWeatherData lines 217-258: the type given to a caught error
Classify(error) ==
    IF error.class = "ZodError" THEN "VALIDATION_ERROR"
    ELSE IF error.class = "Error"
         THEN IF error.name = "AbortError" THEN "TIMEOUT"
              ELSE IF error.mentionsFetch THEN "NETWORK_ERROR"
              ELSE IF error.mentionsStatus THEN "API_ERROR"
              ELSE "UNKNOWN_ERROR"
    ELSE "UNKNOWN_ERROR"

\* what a call returns or throws
Settled(threw, error, data) == [threw |-> threw, error |-> error, data |-> data]

\* fetchWeatherData, then getWeatherData: the validated response is
\* transformed; a WeatherError thrown by fetchWeatherData is not caught
getWeatherData(location, outcome) ==
    IF outcome.kind = "response" /\ outcome.ok /\ outcome.body = "valid"
    THEN Settled(FALSE, NoError, transformWeatherResponse([id |-> outcome.id], location))
    ELSE Settled(TRUE, WeatherError(Classify(TryThrows(outcome))), NullData)

\* the response of the handler
Response(status, cached, data, type) ==
    [status |-> status, cached |-> cached, data |-> data, type |-> type]

NoResponse == Response(0, FALSE, NullData, "none")

\* route.ts lines 56-94: the answer to a caught error
Catch(error) ==
    IF error.class = "ZodError" THEN Response(400, FALSE, NullData, "none")
    ELSE IF error.class = "WeatherError" THEN Response(503, FALSE, NullData, error.type)
    ELSE Response(500, FALSE, NullData, "none")

\* the activation of the handler for one request: where it is, the query,
\* the Location built from it, how the upstream request ended, what
\* getWeatherData threw, the number of upstream requests made, the response
Handling(pc, query, location, outcome, error, fetches, response) ==
    [pc |-> pc, query |-> query, location |-> location, outcome |-> outcome,
     error |-> error, fetches |-> fetches, response |-> response]

\* the requests to GET /api/weather that can be in progress together
Requests == { "r1", "r2" }

IdleRequest == Handling("idle", NoQuery, NoWLocation, NoUpstream, NoError, 0, NoResponse)

\* new WeatherCache(capacity) in a process configured with ENABLE_CACHE = on
WeatherConstructed(capacity, on) ==
    /\ cache = << >>
    /\ maxEntries = capacity
    /\ enabled = on
    /\ wnow = 0
    /\ ret = NoRet
    /\ recency = << >>
    /\ req = [r \in Requests |-> IdleRequest]

(* --------------------------- the RefreshButton ------------------------- *)

\* the component: the props cooldownSeconds and disabled, the state cooldown
\* and loading, and, of the onRefresh promise it awaits: the number of
\* calls not settled yet, how the last one settled, and the number of times
\* the one-second timer fired since the last accepted click
Button(cooldownSeconds, disabled, cooldown, loading, inFlight, settled, elapsed) ==
    [cooldownSeconds |-> cooldownSeconds, disabled |-> disabled, cooldown |-> cooldown,
     loading |-> loading, inFlight |-> inFlight, settled |-> settled, elapsed |-> elapsed]

\* the default of the cooldownSeconds prop
DEFAULT_COOLDOWN_SECONDS == 10

\* lines 21-22: useState(0), useState(false)
ButtonMounted(cooldownSeconds) ==
    button = Button(cooldownSeconds, FALSE, 0, FALSE, 0, "none", 0)

\* mutant: handleRefresh tests the cooldown only
Blocked_IgnoresLoading(b) == b.cooldown > 0

\* handleRefresh line 26: the click is ignored
Blocked(b) == b.cooldown > 0 \/ b.loading

\* line 52: the button element is disabled
isDisabled(b) == b.cooldown > 0 \/ b.loading \/ b.disabled

\* Math.max(0, prev - 1)
Decrement(prev) == IF prev - 1 > 0 THEN prev - 1 ELSE 0

(* ------------------- runs that overlap, as history -------------------- *)

\* nothing has happened to the run
NoOverlap == [cleared |-> FALSE, overtaken |-> "no"]

\* the activation a is suspended at a network request of detectLocation
Running(a) == a.pc \in {"gps", "ip", "gps_geocode", "ip_geocode", "default_geocode"}

\* caller c starts a run: its own history is blank, and every run in
\* flight now has a run that started after it
PeerStarted(c) ==
    [d \in Callers |->
        IF d = c THEN NoOverlap
        ELSE IF Running(call[d]) /\ overlap[d].overtaken = "no"
             THEN [overlap[d] EXCEPT !.overtaken = "started"]
             ELSE overlap[d]]

\* caller c's run completes: for every run in flight that started before
\* it, a run that started later has completed
PeerCompleted(c) ==
    [d \in Callers |->
        IF d # c /\ Running(call[d]) /\ overlap[d].overtaken = "started"
        THEN [overlap[d] EXCEPT !.overtaken = "completed"]
        ELSE overlap[d]]

\* clearLocationCache executes: every run in flight has seen the slot cleared
PeerCleared(c) ==
    [d \in Callers |->
        IF d # c /\ Running(call[d]) THEN [overlap[d] EXCEPT !.cleared = TRUE]
        ELSE overlap[d]]

(* ----------------------------- operations ------------------------------ *)

Init ==
    /\ locationCache = NullCache
    /\ now = 0
    /\ call = [c \in Callers |-> Activation("idle", "none", FALSE)]
    /\ lastReturned = NoLocation
    /\ overlap = [c \in Callers |-> NoOverlap]
    /\ WeatherConstructed(DEFAULT_MAX_ENTRIES, ENABLE_CACHE)
    /\ ButtonMounted(DEFAULT_COOLDOWN_SECONDS)

\* mutant: the test of options.forceRefresh is missing
UseCached_IgnoresForce(force) ==
    /\ locationCache.present
    /\ CacheValid(locationCache, now)

\* detectLocation line 295-301: the call is answered from the slot
UseCached(force) ==
    /\ ~force
    /\ locationCache.present
    /\ CacheValid(locationCache, now)

\* mutant: a replaced entry keeps the timestamp of the entry before it
NewCacheEntry_KeepsTimestamp(loc, t) ==
    [present |-> TRUE, location |-> loc,
     timestamp |-> IF locationCache.present THEN locationCache.timestamp ELSE t,
     ttl |-> CACHE_TTL]

\* detectLocation lines 346-350: the entry written on completion
NewCacheEntry(loc, t) ==
    [present |-> TRUE, location |-> loc, timestamp |-> t, ttl |-> CACHE_TTL]

\* detectLocation lines 293-309: a caller invokes detectLocation(options).  It
\* returns the cached location, or issues the Geolocation request and suspends.
detectLocation(c, force) ==
    /\ call[c].pc = "idle"
    /\ IF UseCached(force)
       THEN /\ call' = [call EXCEPT ![c] =
                    [Activation("done", "detectLocation", force) EXCEPT
                        !.settled = "resolved",
                        !.result = locationCache.location,
                        !.fromCache = TRUE]]
            /\ lastReturned' = locationCache.location
            /\ UNCHANGED overlap
       ELSE /\ call' = [call EXCEPT ![c] =
                    [Activation("gps", "detectLocation", force) EXCEPT
                        !.calls = << "gps" >>]]
            /\ overlap' = PeerStarted(c)
            /\ UNCHANGED lastReturned
    /\ UNCHANGED << locationCache, now, wvars, button >>

\* getBrowserLocation lines 163-171: the position arrives; the reverse
\* geocoding request is issued
GpsSuccess(c, pos) ==
    /\ call[c].pc = "gps"
    /\ call' = [call EXCEPT
            ![c].pc = "gps_geocode",
            ![c].location = Loc(pos.latitude, pos.longitude, Undefined, Undefined, "gps"),
            ![c].calls = Append(@, "geocode")]
    /\ UNCHANGED << locationCache, now, lastReturned, wvars, button, overlap >>

\* mutant: the catch of step 1 goes to the default coordinates, skipping IP
CatchBrowserLocationError_SkipsIP(c) ==
    /\ call' = [call EXCEPT
            ![c].pc = "default_geocode",
            ![c].errors = @ + 1,
            ![c].location = Loc(DEFAULT_LAT, DEFAULT_LON, Undefined, Undefined, "default"),
            ![c].calls = @ \o << "gps_error", "default", "geocode" >>]
    /\ UNCHANGED << locationCache, now, lastReturned, wvars, button, overlap >>

\* detectLocation lines 311-318: the catch of step 1 records the error and
\* issues the IP provider request
CatchBrowserLocationError(c) ==
    /\ call' = [call EXCEPT
            ![c].pc = "ip",
            ![c].errors = @ + 1,
            ![c].calls = @ \o << "gps_error", "ip" >>]
    /\ UNCHANGED << locationCache, now, lastReturned, wvars, button, overlap >>

\* getBrowserLocation lines 147-153, 185-187: the request is rejected
GpsFailure(c, failure) ==
    /\ call[c].pc = "gps"
    /\ failure \in GpsFailures
    /\ CatchBrowserLocationError(c)

\* mutant: the error of step 2 is not caught, detectLocation rejects
CatchIPLocationError_Rethrows(c) ==
    /\ call' = [call EXCEPT
            ![c].pc = "done",
            ![c].settled = "rejected",
            ![c].calls = Append(@, "ip_error")]
    /\ UNCHANGED << locationCache, now, lastReturned, wvars, button, overlap >>

\* detectLocation lines 320-334: the catch of step 2 records the error, takes
\* the default coordinates and issues the reverse geocoding request
CatchIPLocationError(c) ==
    /\ call' = [call EXCEPT
            ![c].pc = "default_geocode",
            ![c].errors = @ + 1,
            ![c].location = Loc(DEFAULT_LAT, DEFAULT_LON, Undefined, Undefined, "default"),
            ![c].calls = @ \o << "ip_error", "default", "geocode" >>]
    /\ UNCHANGED << locationCache, now, lastReturned, wvars, button, overlap >>

\* getIPLocation lines 206-243 and 254-285: the IP provider request ends.  An
\* accepted response issues the reverse geocoding request, anything else throws.
IPResponse(c, resp) ==
    /\ call[c].pc = "ip"
    /\ IF IPSucceeds(resp)
       THEN /\ call' = [call EXCEPT
                    ![c].pc = "ip_geocode",
                    ![c].location = Loc(resp.lat, resp.lon, Undefined, Undefined, "ip"),
                    ![c].ipData = [city |-> resp.city, country |-> resp.country],
                    ![c].calls = Append(@, "geocode")]
            /\ UNCHANGED << locationCache, now, lastReturned, wvars, button, overlap >>
       ELSE CatchIPLocationError(c)

\* the names assigned by the step that awaits reverseGeocode
NamedLocation(a, r) ==
    CASE a.pc = "gps_geocode"     -> BrowserLocationNamed(a.location, r)
      [] a.pc = "ip_geocode"      -> IPLocationNamed(a.location, r, a.ipData)
      [] a.pc = "default_geocode" -> DefaultLocationNamed(a.location, r)

\* mutant: a run that completes leaves a slot that is already filled alone
CompleteDetection_FirstWins(c, loc, resp) ==
    /\ locationCache' = IF locationCache.present THEN locationCache
                        ELSE NewCacheEntry(loc, now)
    /\ call' = [call EXCEPT
            ![c].pc = "done",
            ![c].location = NoLocation,
            ![c].errors = 0,
            ![c].ipData = NoIPData,
            ![c].result = loc,
            ![c].settled = "resolved",
            ![c].geocode = IF resp.kind = "address" THEN "answered" ELSE "failed"]
    /\ lastReturned' = loc
    /\ overlap' = PeerCompleted(c)
    /\ UNCHANGED << now, wvars, button >>

\* detectLocation lines 345-352: store the location in the slot and return it
CompleteDetection(c, loc, resp) ==
    /\ locationCache' = NewCacheEntry(loc, now)
    /\ call' = [call EXCEPT
            ![c].pc = "done",
            ![c].location = NoLocation,
            ![c].errors = 0,
            ![c].ipData = NoIPData,
            ![c].result = loc,
            ![c].settled = "resolved",
            ![c].geocode = IF resp.kind = "address" THEN "answered" ELSE "failed"]
    /\ lastReturned' = loc
    /\ overlap' = PeerCompleted(c)
    /\ UNCHANGED << now, wvars, button >>

\* reverseGeocode lines 113-140 and its three callers: the Nominatim request
\* ends, the awaiting step assigns the names, and detectLocation runs to its end
GeocodeResponse(c, resp) ==
    /\ call[c].pc \in {"gps_geocode", "ip_geocode", "default_geocode"}
    /\ CompleteDetection(c, NamedLocation(call[c], reverseGeocode(resp)), resp)

\* getCachedLocation lines 379-392
getCachedLocation(c) ==
    /\ call[c].pc = "idle"
    /\ IF ~locationCache.present
       THEN /\ call' = [call EXCEPT ![c] =
                    [Activation("done", "getCachedLocation", FALSE) EXCEPT
                        !.settled = "resolved"]]
            /\ UNCHANGED locationCache
       ELSE IF CacheValid(locationCache, now)
       THEN /\ call' = [call EXCEPT ![c] =
                    [Activation("done", "getCachedLocation", FALSE) EXCEPT
                        !.settled = "resolved",
                        !.result = locationCache.location]]
            /\ UNCHANGED locationCache
       ELSE /\ call' = [call EXCEPT ![c] =
                    [Activation("done", "getCachedLocation", FALSE) EXCEPT
                        !.settled = "resolved"]]
            /\ locationCache' = NullCache
    /\ UNCHANGED << now, lastReturned, wvars, button, overlap >>

\* clearLocationCache lines 356-358
clearLocationCache(c) ==
    /\ call[c].pc = "idle"
    /\ locationCache' = NullCache
    /\ call' = [call EXCEPT ![c] =
            [Activation("done", "clearLocationCache", FALSE) EXCEPT
                !.settled = "resolved"]]
    /\ overlap' = PeerCleared(c)
    /\ UNCHANGED << now, lastReturned, wvars, button >>

\* the caller has taken the value its operation returned (page.tsx lines
\* 71-72); it may invoke the next operation
Return(c) ==
    /\ call[c].pc = "done"
    /\ call' = [call EXCEPT ![c] = Activation("idle", "none", FALSE)]
    /\ overlap' = [overlap EXCEPT ![c] = NoOverlap]
    /\ UNCHANGED << locationCache, now, lastReturned, wvars, button >>

\* time passes
Tick ==
    /\ now + TickMs <= MaxTicks * TickMs
    /\ now' = now + TickMs
    /\ UNCHANGED << locationCache, call, lastReturned, wvars, button, overlap >>

Next ==
    \/ \E c \in Callers, force \in BOOLEAN : detectLocation(c, force)
    \/ \E c \in Callers, pos \in GpsPositions : GpsSuccess(c, pos)
    \/ \E c \in Callers, failure \in GpsFailures : GpsFailure(c, failure)
    \/ \E c \in Callers, resp \in IPResponses : IPResponse(c, resp)
    \/ \E c \in Callers, resp \in GeocodeResponses : GeocodeResponse(c, resp)
    \/ \E c \in Callers : getCachedLocation(c)
    \/ \E c \in Callers : clearLocationCache(c)
    \/ \E c \in Callers : Return(c)
    \/ Tick

Spec == Init /\ [][Next]_vars

\* the requests that carry a timeout: the Geolocation request (timeout option,
\* line 158) and the IP provider fetch (AbortController, lines 202-203) end
\* even when the provider stays silent.  reverseGeocode passes no signal to
\* fetch (lines 113-117), so nothing forces its request to end.
IPAbort ==
    [kind |-> "abort", status |-> "fail", lat |-> 0, lon |-> 0, hasLatLon |-> FALSE,
     city |-> Undefined, country |-> Undefined]

FairSpec ==
    /\ Spec
    /\ \A c \in Callers : WF_vars(GpsFailure(c, "TIMEOUT"))
    /\ \A c \in Callers : WF_vars(IPResponse(c, IPAbort))

TypeOK ==
    /\ locationCache.present \in BOOLEAN
    /\ now \in 0..(MaxTicks * TickMs)
    /\ \A c \in Callers : call[c].settled \in {"pending", "resolved", "rejected"}

(* ------------------- operations of the weather cache ------------------- *)

\* a WeatherCache built with any capacity from 0 up, caching on or off
CacheInit ==
    /\ locationCache = NullCache
    /\ now = 0
    /\ call = [c \in Callers |-> Activation("idle", "none", FALSE)]
    /\ lastReturned = NoLocation
    /\ overlap = [c \in Callers |-> NoOverlap]
    /\ \E capacity \in 0..MaxCapacity, on \in BOOLEAN : WeatherConstructed(capacity, on)
    /\ ButtonMounted(DEFAULT_COOLDOWN_SECONDS)

\* weatherCache.get(location), as it acts on the cache
weatherCacheGet(location) ==
    LET o == get(cache, location, wnow)
        k == getCacheKey(location.latitude, location.longitude)
    IN  /\ cache' = o.cache
        /\ ret' = Ret("get", location, o.data, InMap(cache, location), o.found, o.threw,
                      Len(o.cache))
        /\ recency' = Stored(IF o.found THEN Touch(recency, k.key) ELSE recency, o.cache)

\* weatherCache.get(location), called on its own
Get(location) ==
    /\ weatherCacheGet(location)
    /\ UNCHANGED << maxEntries, enabled, wnow, req >>
    /\ UNCHANGED << locationCache, now, call, lastReturned, button, overlap >>

\* weatherCache.set(location, data), as it acts on the cache
weatherCacheSet(location, data) ==
    LET o == set(cache, location, data, wnow)
        k == getCacheKey(location.latitude, location.longitude)
    IN  /\ cache' = o.cache
        /\ ret' = [Ret("set", location, data, InMap(cache, location), FALSE, o.threw,
                       Len(o.cache))
                     EXCEPT !.evicted = { cache[i] : i \in { j \in 1..Len(cache) :
                                             /\ ~MapHas(o.cache, cache[j].key) } }]
        /\ recency' = Stored(IF isEnabled /\ ~k.threw THEN Touch(recency, k.key) ELSE recency,
                             o.cache)

\* weatherCache.set(location, data), called on its own
Set(location, data) ==
    /\ weatherCacheSet(location, data)
    /\ UNCHANGED << maxEntries, enabled, wnow, req >>
    /\ UNCHANGED << locationCache, now, call, lastReturned, button, overlap >>

\* weatherCache.has(location)
Has(location) ==
    LET o == has(cache, location, wnow)
    IN  /\ cache' = o.cache
        /\ ret' = Ret("has", location, NullData, InMap(cache, location), o.found, o.threw, Len(o.cache))
        /\ recency' = Stored(recency, o.cache)
        /\ UNCHANGED << maxEntries, enabled, wnow, req >>
        /\ UNCHANGED << locationCache, now, call, lastReturned, button, overlap >>

\* weatherCache.clear()
Clear ==
    /\ cache' = << >>
    /\ ret' = Ret("clear", NoWLocation, NullData, FALSE, FALSE, FALSE, 0)
    /\ recency' = << >>
    /\ UNCHANGED << maxEntries, enabled, wnow, req >>
    /\ UNCHANGED << locationCache, now, call, lastReturned, button, overlap >>

\* weatherCache.getStats(): size is the number of entries of the Map
GetStats ==
    /\ ret' = Ret("getStats", NoWLocation, NullData, FALSE, FALSE, FALSE, Len(cache))
    /\ UNCHANGED << cache, recency, maxEntries, enabled, wnow, req >>
    /\ UNCHANGED << locationCache, now, call, lastReturned, button, overlap >>

\* the server's clock advances by one ttl, so that an entry is read at the
\* instant it expires and after it
CacheTick ==
    /\ wnow + CONFIG_CACHE_TTL <= MaxTicks * CONFIG_CACHE_TTL
    /\ wnow' = wnow + CONFIG_CACHE_TTL
    /\ UNCHANGED << cache, recency, maxEntries, enabled, ret, req >>
    /\ UNCHANGED << locationCache, now, call, lastReturned, button, overlap >>

CacheNext ==
    \/ \E location \in CacheLocations : Get(location)
    \/ \E location \in CacheLocations, data \in Payloads : Set(location, data)
    \/ \E location \in CacheLocations : Has(location)
    \/ Clear
    \/ GetStats
    \/ CacheTick

CacheSpec == CacheInit /\ [][CacheNext]_vars

\* the server's clock advances by two thirds of the ttl, so that of two
\* entries set at different times one has expired while the other has not
Elapse ==
    /\ wnow + 2 * (CONFIG_CACHE_TTL \div 3) <= MaxTicks * CONFIG_CACHE_TTL
    /\ wnow' = wnow + 2 * (CONFIG_CACHE_TTL \div 3)
    /\ UNCHANGED << cache, recency, maxEntries, enabled, ret, req >>
    /\ UNCHANGED << locationCache, now, call, lastReturned, button, overlap >>

\* the cache operations under the finer clock
AgingNext ==
    \/ \E location \in CacheLocations : Get(location)
    \/ \E location \in CacheLocations, data \in Payloads : Set(location, data)
    \/ \E location \in CacheLocations : Has(location)
    \/ Elapse

AgingSpec == CacheInit /\ [][AgingNext]_vars

(* ------------------- operations of GET /api/weather -------------------- *)

\* mutant: a hit is answered with the name and country of the request
GET_NamesTheRequest(r, query) ==
    /\ req[r].pc = "idle"
    /\ IF ~QueryOK(query)
       THEN /\ req' = [req EXCEPT ![r] =
                          Handling("done", query, NoWLocation, NoUpstream,
                                   Thrown("ZodError", "ZodError", FALSE, FALSE, "none"), 0,
                                   Catch(Thrown("ZodError", "ZodError", FALSE, FALSE, "none")))]
            /\ UNCHANGED << cache, ret, recency >>
       ELSE LET location == QueryLocation(query)
                o == get(cache, location, wnow)
                named == transformWeatherResponse([id |-> o.data.id], location)
            IN  /\ weatherCacheGet(location)
                /\ req' = [req EXCEPT ![r] =
                              IF o.found
                              THEN Handling("done", query, location, NoUpstream, NoError, 0,
                                            Response(200, TRUE,
                                                     [o.data EXCEPT !.name = named.name,
                                                                    !.country = named.country],
                                                     "none"))
                              ELSE Handling("fetching", query, location, NoUpstream, NoError,
                                            1, NoResponse)]
    /\ UNCHANGED << maxEntries, enabled, wnow >>
    /\ UNCHANGED << locationCache, now, call, lastReturned, button, overlap >>

\* GET, lines 16-46: the query is parsed; a ZodError is answered with 400;
\* else the cache is read, a hit is answered at once and a miss starts the
\* upstream request
GET(r, query) ==
    /\ req[r].pc = "idle"
    /\ IF ~QueryOK(query)
       THEN /\ req' = [req EXCEPT ![r] =
                          Handling("done", query, NoWLocation, NoUpstream,
                                   Thrown("ZodError", "ZodError", FALSE, FALSE, "none"), 0,
                                   Catch(Thrown("ZodError", "ZodError", FALSE, FALSE, "none")))]
            /\ UNCHANGED << cache, ret, recency >>
       ELSE LET location == QueryLocation(query)
                o == get(cache, location, wnow)
            IN  /\ weatherCacheGet(location)
                /\ req' = [req EXCEPT ![r] =
                              IF o.found
                              THEN Handling("done", query, location, NoUpstream, NoError, 0,
                                            Response(200, TRUE, o.data, "none"))
                              ELSE Handling("fetching", query, location, NoUpstream, NoError,
                                            1, NoResponse)]
    /\ UNCHANGED << maxEntries, enabled, wnow >>
    /\ UNCHANGED << locationCache, now, call, lastReturned, button, overlap >>

\* mutant: the cache is written whether getWeatherData returned or threw
FetchSettles_StoresOnFailure(r, outcome) ==
    /\ req[r].pc = "fetching"
    /\ LET s == getWeatherData(req[r].location, outcome)
       IN  /\ weatherCacheSet(req[r].location, s.data)
           /\ req' = [req EXCEPT ![r].pc = "done", ![r].outcome = outcome,
                                 ![r].error = s.error,
                                 ![r].response = IF s.threw THEN Catch(s.error)
                                                 ELSE Response(200, FALSE, s.data, "none")]
    /\ UNCHANGED << maxEntries, enabled, wnow >>
    /\ UNCHANGED << locationCache, now, call, lastReturned, button, overlap >>

\* GET, lines 46-94: the upstream request ends; the data is stored and
\* answered, or the WeatherError is answered with 503
FetchSettles(r, outcome) ==
    /\ req[r].pc = "fetching"
    /\ LET s == getWeatherData(req[r].location, outcome)
       IN  IF s.threw
           THEN /\ req' = [req EXCEPT ![r].pc = "done", ![r].outcome = outcome,
                                      ![r].error = s.error, ![r].response = Catch(s.error)]
                /\ UNCHANGED << cache, ret, recency >>
           ELSE /\ weatherCacheSet(req[r].location, s.data)
                /\ req' = [req EXCEPT ![r].pc = "done", ![r].outcome = outcome,
                                      ![r].response = Response(200, FALSE, s.data, "none")]
    /\ UNCHANGED << maxEntries, enabled, wnow >>
    /\ UNCHANGED << locationCache, now, call, lastReturned, button, overlap >>

\* the response has been sent
Respond(r) ==
    /\ req[r].pc = "done"
    /\ req' = [req EXCEPT ![r] = IdleRequest]
    /\ UNCHANGED << cache, ret, recency, maxEntries, enabled, wnow >>
    /\ UNCHANGED << locationCache, now, call, lastReturned, button, overlap >>

\* POST /api/clear-cache: weatherCache.clear() and clearLocationCache()
POST ==
    /\ cache' = << >>
    /\ ret' = Ret("clear", NoWLocation, NullData, FALSE, FALSE, FALSE, 0)
    /\ recency' = << >>
    /\ locationCache' = NullCache
    /\ UNCHANGED << maxEntries, enabled, wnow, req >>
    /\ UNCHANGED << now, call, lastReturned, button, overlap >>

\* the server with the weatherCache singleton, caching configured on or off
RouteInit ==
    /\ locationCache = NullCache
    /\ now = 0
    /\ call = [c \in Callers |-> Activation("idle", "none", FALSE)]
    /\ lastReturned = NoLocation
    /\ overlap = [c \in Callers |-> NoOverlap]
    /\ \E on \in BOOLEAN : WeatherConstructed(DEFAULT_MAX_ENTRIES, on)
    /\ ButtonMounted(DEFAULT_COOLDOWN_SECONDS)

RouteNext ==
    \/ \E r \in Requests, query \in Queries : GET(r, query)
    \/ \E r \in Requests, outcome \in FetchOutcomes : FetchSettles(r, outcome)
    \/ \E r \in Requests : Respond(r)
    \/ POST
    \/ CacheTick

RouteSpec == RouteInit /\ [][RouteNext]_vars

(* ------------------- operations of the RefreshButton ------------------- *)

\* everything but the button
UnchangedByButton == UNCHANGED << locationCache, now, call, lastReturned, wvars, overlap >>

\* a RefreshButton with any cooldownSeconds from 0 up
ButtonInit ==
    /\ locationCache = NullCache
    /\ now = 0
    /\ call = [c \in Callers |-> Activation("idle", "none", FALSE)]
    /\ lastReturned = NoLocation
    /\ overlap = [c \in Callers |-> NoOverlap]
    /\ WeatherConstructed(DEFAULT_MAX_ENTRIES, ENABLE_CACHE)
    /\ \E cooldownSeconds \in 0..MaxCooldown : ButtonMounted(cooldownSeconds)

\* handleRefresh, lines 25-32, up to the await.  The button element passes
\* no click on while it is disabled (line 57); here the handler may be
\* called at any time, so that its own test at line 26 is what decides.
handleRefresh ==
    /\ IF Blocked(button)
       THEN UNCHANGED button
       ELSE button' = [button EXCEPT !.loading = TRUE,
                                    !.cooldown = button.cooldownSeconds,
                                    !.inFlight = button.inFlight + 1,
                                    !.elapsed = 0]
    /\ UnchangedByButton

\* handleRefresh, lines 32-37: onRefresh resolves or rejects; a rejection is
\* logged; finally loading is reset
onRefreshSettles(how) ==
    /\ button.inFlight > 0
    /\ button' = [button EXCEPT !.loading = FALSE,
                                !.inFlight = button.inFlight - 1,
                                !.settled = how]
    /\ UnchangedByButton

\* the effect of lines 41-50: with cooldown > 0 a timer of one second is
\* set, and when it fires cooldown becomes Math.max(0, prev - 1)
TimerFires ==
    /\ button.cooldown > 0
    /\ button' = [button EXCEPT !.cooldown = Decrement(button.cooldown),
                                !.elapsed = button.elapsed + 1]
    /\ UnchangedByButton

\* the page re-renders the button with disabled = !isOnline
SetDisabled(disabled) ==
    /\ button.disabled # disabled
    /\ button' = [button EXCEPT !.disabled = disabled]
    /\ UnchangedByButton

ButtonNext ==
    \/ handleRefresh
    \/ \E how \in {"resolved", "rejected"} : onRefreshSettles(how)
    \/ TimerFires
    \/ \E disabled \in BOOLEAN : SetDisabled(disabled)

ButtonSpec == ButtonInit /\ [][ButtonNext]_vars

(* --------------- steps of the weather cache, as seen from outside ------ *)

\* this step is a WeatherCache operation named op
CacheStep(op) ==
    /\ ret'.op = op
    /\ wnow' = wnow
    /\ (ret' # ret \/ cache' # cache)

\* this step is op called with location
CacheStepAt(op, location) ==
    /\ CacheStep(op)
    /\ ret'.location = location

\* the locations whose key can be formed, and the key
Keyed(location) == ~getCacheKey(location.latitude, location.longitude).threw
KeyOf(location) == getCacheKey(location.latitude, location.longitude).key

(* ------------------------- steps, as seen from outside ------------------ *)

\* caller c is suspended inside a detectLocation chain run
InFlight(c) == call[c].pc \in {"gps", "ip", "gps_geocode", "ip_geocode", "default_geocode"}

\* this step is caller c invoking detectLocation
StartsDetect(c) ==
    /\ call[c].pc = "idle"
    /\ call'[c].op = "detectLocation"

\* this step is the end of a chain run of caller c
CompletesChain(c) ==
    /\ InFlight(c)
    /\ call'[c].pc = "done"

\* this step is caller c running the synchronous operation `name`
SyncStep(c, name) ==
    /\ call[c].pc = "idle"
    /\ call'[c].op = name

(* ------------------------------- claims -------------------------------- *)

\* C1: a chain run tries GPS, then IP, then the default coordinates, each at
\* most once and each only after the one before it failed; the source of the
\* returned Location is the first step that succeeded, and a default Location
\* carries the configured default coordinates.
C1_FallbackOrder ==
    \A c \in Callers :
        LET a == call[c] IN
        a.op = "detectLocation" =>
            /\ a.calls \in { << >>,
                             << "gps" >>,
                             << "gps", "geocode" >>,
                             << "gps", "gps_error", "ip" >>,
                             << "gps", "gps_error", "ip", "geocode" >>,
                             << "gps", "gps_error", "ip", "ip_error", "default", "geocode" >> }
            /\ (a.pc = "done" /\ ~a.fromCache) =>
                  \/ /\ a.result.source = "gps"
                     /\ a.calls = << "gps", "geocode" >>
                  \/ /\ a.result.source = "ip"
                     /\ a.calls = << "gps", "gps_error", "ip", "geocode" >>
                  \/ /\ a.result.source = "default"
                     /\ a.calls = << "gps", "gps_error", "ip", "ip_error", "default", "geocode" >>
                     /\ a.result.latitude = DEFAULT_LAT
                     /\ a.result.longitude = DEFAULT_LON

C1_Witness ==
    \E c \in Callers :
        /\ call[c].pc = "done"
        /\ call[c].op = "detectLocation"
        /\ call[c].result.source = "ip"
        /\ \E d \in Callers : call[d].pc = "done" /\ call[d].result.source = "default"
                                /\ ~call[d].fromCache

\* C2: detectLocation never rejects; whatever the providers do, it resolves
\* with a Location that has coordinates and a source, and carries no error.
C2_NeverRejects ==
    \A c \in Callers :
        /\ call[c].settled # "rejected"
        /\ (call[c].op = "detectLocation" /\ call[c].pc = "done") =>
              /\ call[c].settled = "resolved"
              /\ call[c].result.source \in {"gps", "ip", "default"}
              /\ call[c].result # NoLocation
              /\ call[c].errors = 0

C2_Witness ==
    \E c \in Callers :
        /\ call[c].op = "detectLocation"
        /\ call[c].pc = "done"
        /\ call[c].settled = "resolved"
        /\ ~call[c].fromCache
        /\ call[c].result.source = "default"
        /\ call[c].geocode = "failed"

\* C3: a detectLocation call without forceRefresh that starts while the slot
\* holds an entry younger than the TTL returns at once, with no provider
\* call, the Location that the previous detectLocation call returned.
C3_CacheShortCircuit ==
    [][ \A c \in Callers :
          ( /\ StartsDetect(c)
            /\ ~call'[c].forceRefresh
            /\ locationCache.present
            /\ now - locationCache.timestamp < 300000 )
          => /\ call'[c].pc = "done"
             /\ call'[c].settled = "resolved"
             /\ call'[c].calls = << >>
             /\ call'[c].result = lastReturned
             /\ call'[c].result # NoLocation ]_vars

C3_Witness ==
    \E c \in Callers :
        /\ call[c].op = "detectLocation"
        /\ call[c].pc = "done"
        /\ call[c].fromCache
        /\ call[c].result = lastReturned
        /\ now > locationCache.timestamp

\* C4: a detectLocation call with forceRefresh starts the chain at GPS even
\* when the slot holds a valid entry, and is never answered from the slot.
C4_ForcedRefreshBypass ==
    \A c \in Callers :
        (call[c].op = "detectLocation" /\ call[c].forceRefresh) =>
            /\ ~call[c].fromCache
            /\ Len(call[c].calls) >= 1
            /\ call[c].calls[1] = "gps"

C4_Witness ==
    \E c \in Callers :
        /\ call[c].op = "detectLocation"
        /\ call[c].forceRefresh
        /\ call[c].pc = "gps"
        /\ locationCache.present
        /\ now - locationCache.timestamp < locationCache.ttl

\* C5: detectLocation writes the slot only at the end of a chain run, and then
\* replaces it by {the returned location, now, 300000}, whichever step
\* produced the location; starting a call, a provider response that does not
\* end the run, and a call answered from the slot leave the slot unchanged.
C5_CacheWrittenOnCompletion ==
    [][ /\ \A c \in Callers :
            CompletesChain(c) =>
                /\ call'[c].result.source \in {"gps", "ip", "default"}
                /\ locationCache' = [present |-> TRUE, location |-> call'[c].result,
                                     timestamp |-> now, ttl |-> 300000]
        /\ \A c \in Callers :
            (InFlight(c) /\ call'[c] # call[c] /\ call'[c].pc # "done")
                => locationCache' = locationCache
        /\ \A c \in Callers :
            StartsDetect(c) => locationCache' = locationCache
        /\ (locationCache'.present /\ locationCache' # locationCache)
                => \E c \in Callers : CompletesChain(c) ]_vars

C5_Witness ==
    \E c \in Callers :
        /\ call[c].op = "detectLocation"
        /\ call[c].pc = "done"
        /\ ~call[c].fromCache
        /\ call[c].result.source = "default"
        /\ locationCache.present
        /\ locationCache.location = call[c].result
        /\ locationCache.timestamp = now
        /\ now > 0

\* C6: getCachedLocation returns the stored location iff the slot exists and
\* now - timestamp < ttl; it clears an expired slot and returns absent; it
\* leaves a valid slot unchanged and issues no provider call.  After
\* clearLocationCache the slot is empty, and it stays empty (so that
\* getCachedLocation returns absent) until a chain run completes.
C6_GetCachedLocation ==
    [][ /\ \A c \in Callers :
            SyncStep(c, "getCachedLocation") =>
                LET valid == /\ locationCache.present
                             /\ now - locationCache.timestamp < locationCache.ttl
                IN /\ call'[c].result = IF valid THEN locationCache.location ELSE NoLocation
                   /\ valid => locationCache.location # NoLocation
                   /\ locationCache' = IF valid THEN locationCache ELSE NullCache
                   /\ call'[c].calls = << >>
                   /\ call'[c].settled = "resolved"
        /\ \A c \in Callers :
            SyncStep(c, "clearLocationCache") => locationCache' = NullCache
        /\ (~locationCache.present /\ locationCache'.present)
                => \E c \in Callers : CompletesChain(c) ]_vars

C6_Witness ==
    \E c \in Callers :
        /\ call[c].op = "getCachedLocation"
        /\ call[c].result = NoLocation
        /\ ~locationCache.present
        /\ lastReturned # NoLocation
        /\ \E d \in Callers : call[d].op = "getCachedLocation" /\ call[d].result # NoLocation


\* C7: when the IP provider succeeds with a city and country of its own and
\* the reverse geocoding of its coordinates fails, the returned Location
\* carries the IP provider's city and country.
C7_IPNamesOnGeocodeFailure ==
    [][ \A c \in Callers :
          ( /\ call[c].pc = "ip_geocode"
            /\ call'[c].pc = "done"
            /\ call'[c].geocode = "failed"
            /\ call[c].ipData.city # Undefined )
          => /\ call'[c].result.source = "ip"
             /\ call'[c].result.city = call[c].ipData.city
             /\ call'[c].result.country = call[c].ipData.country ]_vars

\* C8: when GPS and IP fail and the reverse geocoding of the default
\* coordinates fails too, the returned Location has the configured default
\* city.
C8_DefaultCityOnGeocodeFailure ==
    \A c \in Callers :
        ( /\ call[c].op = "detectLocation"
          /\ call[c].pc = "done"
          /\ ~call[c].fromCache
          /\ call[c].result.source = "default"
          /\ call[c].geocode = "failed" )
        => call[c].result.city = "San Francisco, California"

\* C9: a reverse geocoding failure during GPS resolution ends the run with the
\* GPS coordinates, source gps and no city, without an IP or default step;
\* reverseGeocode returns an empty result, and does not throw, on every failure.
C9_GeocodeFailureKeepsGps ==
    [][ /\ \A c \in Callers :
            ( /\ call[c].pc = "gps_geocode"
              /\ call'[c] # call[c]
              /\ call'[c].geocode = "failed" )
            => /\ call'[c].pc = "done"
               /\ call'[c].settled = "resolved"
               /\ call'[c].result.source = "gps"
               /\ call'[c].result.latitude = call[c].location.latitude
               /\ call'[c].result.longitude = call[c].location.longitude
               /\ call'[c].result.city = Undefined
               /\ call'[c].calls = << "gps", "geocode" >>
        /\ \A resp \in GeocodeResponses :
            resp.kind # "address" =>
                reverseGeocode(resp) =
                    [threw |-> FALSE, city |-> Undefined, country |-> Undefined] ]_vars

C9_Witness ==
    \E c \in Callers :
        /\ call[c].op = "detectLocation"
        /\ call[c].pc = "done"
        /\ ~call[c].fromCache
        /\ call[c].result.source = "gps"
        /\ call[c].geocode = "failed"
        /\ call[c].result.city = Undefined

\* C10: every detectLocation call eventually completes, even when a provider
\* never responds, because every provider request is ended by a timeout.
C10_DetectLocationCompletes ==
    \A c \in Callers : InFlight(c) ~> (call[c].pc = "done")

\* C11: eviction is least-recently-used by access: a set of a new key into a
\* store that holds maxEntries entries removes exactly one entry, the one
\* whose last get hit or set is oldest, and stores the new key.
C11_EvictsLeastRecentlyUsed ==
    [][ \A location \in CacheLocations :
          ( /\ CacheStepAt("set", location)
            /\ enabled
            /\ Keyed(location)
            /\ Len(cache) = maxEntries
            /\ ~MapHas(cache, KeyOf(location)) )
          => \E victim \in MapKeys(cache) :
                /\ victim = recency[1]
                /\ MapKeys(cache') = (MapKeys(cache) \ {victim}) \cup {KeyOf(location)}
                /\ Len(cache') = Len(cache) ]_vars

\* C12: whatever capacity the cache was built with, 0 included, the number
\* of stored entries never exceeds maxEntries.
C12_SizeWithinCapacity == Len(cache) <= maxEntries

\* C13: an entry whose expiresAt is at or before now, the exact instant
\* now = expiresAt included, is reported absent by get and by has and is
\* removed from the store by that call.
C13_ExpiredIsAbsent ==
    [][ \A location \in CacheLocations, op \in {"get", "has"} :
          ( /\ CacheStepAt(op, location)
            /\ InMap(cache, location)
            /\ MapGet(cache, KeyOf(location)).expiresAt <= wnow )
          => /\ ~ret'.found
             /\ ~InMap(cache', location) ]_vars

\* C14: with caching disabled a set stores nothing and a get returns
\* absent; the store and the recency order stay as they were and
\* getStats().size stays 0.
C14_DisabledCacheIsInert ==
    [][ ~enabled =>
          /\ CacheStep("set") => (cache' = cache /\ recency' = recency /\ ~ret'.threw)
          /\ CacheStep("get") => (~ret'.found /\ ret'.data = NullData /\ cache' = cache)
          /\ CacheStep("getStats") => ret'.size = 0
          /\ Len(cache') = 0 ]_vars

C14_Witness ==
    /\ ~enabled
    /\ ret.op = "set"
    /\ ret.location = SFRounded
    /\ cache = << >>

\* the locations whose two coordinates are finite numbers, and the pair of
\* values they round to at four decimals
Numeric(location) == location.latitude.kind = "number" /\ location.longitude.kind = "number"
RoundedPair(location) == << Rounded4(location.latitude.val), Rounded4(location.longitude.val) >>

\* C15: the cache key is the coordinates rounded to four decimals: a get
\* finds the entry stored under any location that rounds to the same two
\* values, and never one stored under a location that rounds differently.
C15_KeyIsRoundedCoordinates ==
    [][ \A b \in CacheLocations :
          ( CacheStepAt("get", b) /\ enabled /\ Numeric(b) )
          => /\ ( \E a \in CacheLocations :
                     /\ Numeric(a)
                     /\ InMap(cache, a)
                     /\ wnow < MapGet(cache, KeyOf(a)).expiresAt
                     /\ RoundedPair(a) = RoundedPair(b) )
                => ret'.found
             /\ ret'.found
                => \E a \in CacheLocations :
                     /\ Numeric(a)
                     /\ InMap(cache, a)
                     /\ RoundedPair(a) = RoundedPair(b)
                     /\ ret'.data.id = MapGet(cache, KeyOf(a)).data.id ]_vars

\* C16: a get that hits returns a copy of the stored payload marked with
\* source 'cache'; the payload in the store stays as it was, source 'api'.
C16_HitReturnsMarkedCopy ==
    [][ \A location \in CacheLocations :
          ( CacheStepAt("get", location) /\ ret'.found )
          => /\ InMap(cache, location)
             /\ InMap(cache', location)
             /\ ret'.data = [MapGet(cache, KeyOf(location)).data EXCEPT !.source = "cache"]
             /\ MapGet(cache', KeyOf(location)).data = MapGet(cache, KeyOf(location)).data
             /\ MapGet(cache', KeyOf(location)).data.source = "api" ]_vars

C16_Witness ==
    /\ ret.op = "get"
    /\ ret.found
    /\ ret.data.source = "cache"
    /\ InMap(cache, ret.location)
    /\ MapGet(cache, KeyOf(ret.location)).data.source = "api"
    /\ MapGet(cache, KeyOf(ret.location)).data.id = ret.data.id

\* C17: has never promotes: the entries that survive a has keep their
\* order in the store, and a has that finds its entry changes nothing, so
\* the entry is evicted when it would have been without the has.
C17_HasDoesNotPromote ==
    [][ CacheStep("has")
          => /\ cache' = SelectSeq(cache, LAMBDA e : MapHas(cache', e.key))
             /\ ret'.found => cache' = cache ]_vars

C17_Witness ==
    /\ ret.op = "has"
    /\ ret.found
    /\ Len(cache) >= 2
    /\ cache[1].key = KeyOf(ret.location)

\* C18: a set of a key that is already stored evicts nothing, also when the
\* store is full: the size is unchanged, the payload is replaced,
\* expiresAt becomes now + ttl and the key becomes the most recently used.
C18_SetExistingKeyEvictsNothing ==
    [][ \A location \in CacheLocations :
          ( CacheStepAt("set", location) /\ enabled /\ InMap(cache, location) )
          => /\ Len(cache') = Len(cache)
             /\ MapKeys(cache') = MapKeys(cache)
             /\ MapDelete(cache', KeyOf(location)) = MapDelete(cache, KeyOf(location))
             /\ cache'[Len(cache')] =
                    [key |-> KeyOf(location), data |-> ret'.data, timestamp |-> wnow,
                     expiresAt |-> wnow + CONFIG_CACHE_TTL]
             /\ recency'[Len(recency')] = KeyOf(location) ]_vars

C18_Witness ==
    /\ ret.op = "set"
    /\ ret.existed
    /\ maxEntries >= 2
    /\ Len(cache) = maxEntries
    /\ cache[Len(cache)].key = KeyOf(ret.location)
    /\ cache[Len(cache)].data = ret.data
    /\ cache[Len(cache)].timestamp > cache[1].timestamp

\* C19: no WeatherCache operation raises; with caching disabled, or with a
\* location whose coordinate is missing or not a finite number, get and has
\* report a miss.
C19_CacheNeverRaises ==
    /\ ~ret.threw
    /\ ( /\ ret.op \in {"get", "has"}
         /\ (~enabled \/ ~Numeric(ret.location)) )
       => ~ret.found

\* C20: every failure of a weather fetch reaches the route handler as a
\* WeatherError with a type of the enum, and is answered with 503 carrying
\* that type and no data: an abort by the timer gives TIMEOUT, a response
\* that is not ok gives API_ERROR, a body failing the schema gives
\* VALIDATION_ERROR.
C20_FetchFailureIsTyped ==
    [][ \A r \in Requests :
          ( /\ req[r].pc = "fetching"
            /\ req'[r].pc = "done"
            /\ ~( /\ req'[r].outcome.kind = "response"
                  /\ req'[r].outcome.ok
                  /\ req'[r].outcome.body = "valid" ) )
          => /\ req'[r].error.class = "WeatherError"
             /\ req'[r].error.type \in
                    { "NETWORK_ERROR", "TIMEOUT", "INVALID_RESPONSE", "API_ERROR",
                      "VALIDATION_ERROR", "UNKNOWN_ERROR" }
             /\ req'[r].response.status = 503
             /\ req'[r].response.type = req'[r].error.type
             /\ req'[r].response.data = NullData
             /\ req'[r].outcome.kind = "aborted" => req'[r].error.type = "TIMEOUT"
             /\ (req'[r].outcome.kind = "response" /\ ~req'[r].outcome.ok)
                   => req'[r].error.type = "API_ERROR"
             /\ (req'[r].outcome.kind = "response" /\ req'[r].outcome.body = "invalid")
                   => req'[r].error.type = "VALIDATION_ERROR"
             /\ cache' = cache ]_vars

C20_Witness ==
    \E r, q \in Requests :
        /\ req[r].pc = "done"
        /\ req[r].outcome.kind = "response"
        /\ ~req[r].outcome.ok
        /\ req[r].response.status = 503
        /\ req[r].response.type = "API_ERROR"
        /\ req[q].pc = "done"
        /\ req[q].outcome.kind = "aborted"
        /\ req[q].response.status = 503
        /\ req[q].response.type = "TIMEOUT"

\* C21: a GET /api/weather request with forceRefresh set bypasses the cache:
\* the handler goes to the upstream API and does not answer with cached:
\* true, also when a live entry is stored for the requested coordinates.
C21_ForceRefreshBypassesCache ==
    [][ \A r \in Requests :
          ( /\ req[r].pc = "idle"
            /\ req'[r].pc # "idle"
            /\ req'[r].query.forceRefresh.text = "true"
            /\ req'[r].response.status # 400 )
          => /\ req'[r].pc = "fetching"
             /\ req'[r].fetches = 1
             /\ ~req'[r].response.cached ]_vars

\* C22: lat and lon are required: a request in which lat or lon is missing
\* is answered with status 400 and causes no cache read, no upstream fetch
\* and no cache write.
C22_MissingCoordinateRejected ==
    [][ \A r \in Requests :
          ( /\ req[r].pc = "idle"
            /\ req'[r].pc # "idle"
            /\ (req'[r].query.lat.kind = "null" \/ req'[r].query.lon.kind = "null") )
          => /\ req'[r].pc = "done"
             /\ req'[r].response.status = 400
             /\ req'[r].fetches = 0
             /\ cache' = cache
             /\ ret' = ret ]_vars

\* C23: city and country are optional: a request with valid lat and lon and
\* no city or no country parameter is served (answered from the cache, or
\* sent on to the upstream API), not rejected.
C23_CityAndCountryOptional ==
    [][ \A r \in Requests :
          ( /\ req[r].pc = "idle"
            /\ req'[r].pc # "idle"
            /\ req'[r].query.lat.kind = "text"
            /\ CoordinateOK(req'[r].query.lat, -90, 90)
            /\ req'[r].query.lon.kind = "text"
            /\ CoordinateOK(req'[r].query.lon, -180, 180)
            /\ (req'[r].query.city.kind = "null" \/ req'[r].query.country.kind = "null") )
          => /\ req'[r].response.status # 400
             /\ \/ req'[r].pc = "fetching"
                \/ req'[r].pc = "done" /\ req'[r].response.status = 200
                                       /\ req'[r].response.cached ]_vars

C25_RefreshCooldown ==
    /\ [] /\ button.inFlight \in {0, 1}
          /\ button.cooldown >= 0
          /\ button.cooldown <= button.cooldownSeconds
          /\ \/ button.cooldown = button.cooldownSeconds - button.elapsed
             \/ button.cooldown = 0 /\ button.elapsed = 0
          /\ (button.cooldown = 0 /\ button.inFlight = 0 /\ ~button.disabled)
                => ~isDisabled(button)
          /\ button.inFlight = 1 => isDisabled(button)
    /\ [][ /\ button'.inFlight > button.inFlight
                => /\ button.cooldown = 0
                   /\ button.inFlight = 0
                   /\ button'.inFlight = 1
                   /\ button'.cooldown = button.cooldownSeconds
           /\ button'.elapsed = button.elapsed + 1
                => /\ button'.cooldown = button.cooldown - 1
                   /\ button'.inFlight = button.inFlight
           /\ button'.cooldown # button.cooldown
                => \/ button'.inFlight > button.inFlight
                   \/ button'.elapsed = button.elapsed + 1 ]_vars

C25_Witness ==
    /\ button.cooldownSeconds >= 2
    /\ button.elapsed = button.cooldownSeconds
    /\ button.cooldown = 0
    /\ button.inFlight = 0
    /\ button.settled = "rejected"
    /\ ~button.disabled
    /\ ~isDisabled(button)

\* the entries of the Map m, as a set
Entries(m) == { m[i] : i \in 1..Len(m) }

\* C26: a get hit moves the entry to the most recent end but leaves its
\* expiresAt alone: only set writes timestamp and expiresAt = timestamp +
\* ttl, get and has leave every entry they keep as it is, and get returns a
\* payload only while now <= (time of the last set of the key) + ttl.
C26_HitKeepsExpiry ==
    [][ \A location \in CacheLocations :
          /\ ( CacheStepAt("set", location) /\ enabled /\ Keyed(location) )
             => /\ InMap(cache', location)
                /\ MapGet(cache', KeyOf(location)).timestamp = wnow
                /\ MapGet(cache', KeyOf(location)).expiresAt = wnow + CONFIG_CACHE_TTL
                /\ Entries(cache') \ {MapGet(cache', KeyOf(location))} \subseteq Entries(cache)
          /\ ( CacheStepAt("get", location) \/ CacheStepAt("has", location) )
             => Entries(cache') \subseteq Entries(cache)
          /\ ( CacheStepAt("get", location) /\ ret'.found )
             => /\ InMap(cache, location)
                /\ cache'[Len(cache')] = MapGet(cache, KeyOf(location))
                /\ recency'[Len(recency')] = KeyOf(location)
                /\ wnow <= MapGet(cache, KeyOf(location)).timestamp + CONFIG_CACHE_TTL ]_vars

C26_Witness ==
    /\ ret.op = "get"
    /\ ret.found
    /\ Len(cache) >= 2
    /\ cache[Len(cache)].key = KeyOf(ret.location)
    /\ cache[Len(cache)].timestamp < cache[1].timestamp
    /\ cache[Len(cache)].expiresAt = cache[Len(cache)].timestamp + CONFIG_CACHE_TTL
    /\ wnow > cache[Len(cache)].timestamp

C28_LastCompletedRunWins ==
    [][ /\ \A c \in Callers :
            (Running(call[c]) /\ call'[c].pc = "done")
                => /\ locationCache'.present
                   /\ locationCache'.location = call'[c].result
                   /\ call'[c].settled = "resolved"
        /\ (locationCache'.present /\ locationCache' # locationCache)
                => \E c \in Callers : Running(call[c]) /\ call'[c].pc = "done"
        /\ (locationCache.present /\ ~locationCache'.present)
                => \E c \in Callers :
                      /\ call[c].pc = "idle"
                      /\ call'[c].op \in {"clearLocationCache", "getCachedLocation"} ]_vars

C28_Witness ==
    \E c, d \in Callers :
        /\ call[c].op = "detectLocation"
        /\ call[c].pc = "done"
        /\ ~call[c].fromCache
        /\ overlap[c].cleared
        /\ overlap[c].overtaken = "completed"
        /\ call[d].op = "detectLocation"
        /\ call[d].pc = "done"
        /\ ~call[d].fromCache
        /\ call[d].result # call[c].result
        /\ locationCache.present
        /\ locationCache.location = call[c].result

\* the entries of m stored under the key of location
EntriesFor(m, location) == { i \in 1..Len(m) : m[i].key = KeyOf(location) }

C30_HitReturnsStoredName ==
    /\ [](\A q \in Queries : \A city, country \in {Undefined, "Oakland", "US"} :
             QueryOK(q) =>
                KeyOf(WLoc(Coerce(q.lat), Coerce(q.lon), city, country))
                    = << toFixed(Coerce(q.lat)), toFixed(Coerce(q.lon)) >>)
    /\ [][ \A r \in Requests :
             /\ ( /\ req[r].pc = "fetching"
                  /\ req'[r].pc = "done"
                  /\ req'[r].response.status = 200 )
                => /\ req'[r].response.data.name
                        = IF req[r].query.city.text # ""
                          THEN CityName(req[r].query.city.text)
                          ELSE CoordinateName(req[r].location.latitude.val,
                                              req[r].location.longitude.val)
                   /\ req'[r].response.data.country = req[r].location.country
                   /\ \A i \in EntriesFor(cache', req[r].location) :
                         cache'[i].data = req'[r].response.data
             /\ ( /\ req[r].pc = "idle"
                  /\ req'[r].pc = "done"
                  /\ req'[r].response.status = 200 )
                => /\ req'[r].response.cached
                   /\ \E i \in 1..Len(cache) :
                         /\ cache[i].key = << toFixed(Coerce(req'[r].query.lat)),
                                              toFixed(Coerce(req'[r].query.lon)) >>
                         /\ wnow <= cache[i].timestamp + CONFIG_CACHE_TTL
                         /\ req'[r].response.data.name = cache[i].data.name
                         /\ req'[r].response.data.country = cache[i].data.country
                         /\ req'[r].response.data.id = cache[i].data.id ]_vars

C30_Witness ==
    \E r, q \in Requests :
        /\ req[q].pc = "done"
        /\ req[q].fetches = 1
        /\ req[q].response.status = 200
        /\ req[q].response.data.name = CityName(req[q].query.city.text)
        /\ req[r].pc = "done"
        /\ req[r].response.status = 200
        /\ req[r].response.cached
        /\ req[r].query.city.text \notin {"", req[q].query.city.text}
        /\ req[r].query.lat # req[q].query.lat
        /\ KeyOf(req[r].location) = KeyOf(req[q].location)
        /\ req[r].response.data.name = req[q].response.data.name
        /\ req[r].response.data.country = req[q].response.data.country

====
